---- MODULE Spec2Model ----
(***************************************************************************)
(* Model of the A/B listening-test hook (useABTest), the page that calls   *)
(* it and the backend session commands it invokes, and of the equalizer    *)
(* hook (useEqualizer) with its debounced apply.                           *)
(*                                                                         *)
(* Every `await` of a handler is a scheduling point: an asynchronous       *)
(* handler is one action per segment between two awaits.  The backend      *)
(* handles a command when it is invoked; the promise of the invoke settles *)
(* later, and the promises in flight settle in any order.                  *)
(***************************************************************************)
EXTENDS Integers, Sequences, FiniteSets, Bags, TLC

(* ---------------------------------------------------------------------- *)
(* Bounds and input sets                                                   *)
(* ---------------------------------------------------------------------- *)
MaxTrials == 2
MaxInFlight == 2
(* handler calls that reach the backend, per run *)
MaxInvokes == 4
MaxBands == 2
(* edits of the equalizer, per run *)
MaxEdits == 3

(* null is the empty sequence, a present value v is <<v>> *)
Null == <<>>
Some(v) == <<v>>

PresetsA == {"P"}
PresetsB == {"P", "Q"}
Modes == {"blindab", "abx"}
ManualTrims == {3}
TrialCounts == {0, MaxTrials}

(* the state of useABTest; abSession, the backend's session; calls, the invokes
   in flight.  Bookkeeping: invoked counts the handler calls that reached the
   backend, manualTrim is the trim the user last supplied (null after reset to
   auto), recCalls counts the recordAnswer calls of the running session. *)
VARIABLES phase, sessionState, results, error, isLoading, setup, autoTrimDb,
          abSession, calls, invoked, manualTrim, recCalls

abHook == <<phase, sessionState, results, error, isLoading, setup, autoTrimDb>>
abVars == <<phase, sessionState, results, error, isLoading, setup, autoTrimDb,
            abSession, calls, invoked, manualTrim, recCalls>>
ipc == <<calls, invoked>>

(* the state of useEqualizer (eqError is its error field), its apply timer, the
   applyProfile calls in flight and liveConfig, the configuration EqualizerAPO
   runs.  Bookkeeping: nextId is the next generateId value, edits counts the
   edits made. *)
VARIABLES bands, preamp, syncStatus, eqError, applyTimeout, applyCalls, liveConfig,
          nextId, edits

(* configPath of useEqualizer, its save timer, and the settings the backend holds *)
VARIABLES configPath, saveTimeout, savedSettings

eqVars == <<bands, preamp, syncStatus, eqError, applyTimeout, applyCalls, liveConfig,
            nextId, edits, configPath, saveTimeout, savedSettings>>
(* the frequency grid of lib/audio-math.ts, the configuration handed to the
   graph and the peak meter, and what they render: the response curve of
   useFrequencyResponse, the peakGain of the page, isClipping of PeakMeter *)
VARIABLES FREQUENCIES, cfgBands, cfgPreamp, response, peakGain, isClipping

mathVars == <<FREQUENCIES, cfgBands, cfgPreamp, response, peakGain, isClipping>>

(* one call of calcBiquadMagnitudeDb: its arguments and what it computes *)
VARIABLES biquadArgs, biquadOut

biquadVars == <<biquadArgs, biquadOut>>

(* one call of binomialTest: its arguments and the p-value it returns *)
VARIABLES successes, trials, pValue

statVars == <<successes, trials, pValue>>

(* Audio status hook: the peak meter readings, the held peak and the time it
   was last set, the registered peak_meter_update listeners (each is the
   peakHold its closure captured when startMonitoring subscribed), the
   backend's peak meter, and the wall clock read by Date.now(). *)
VARIABLES audioPeakDb, peakHold, isMonitoring, audioError, peakHoldTimeRef,
          unlistenRef, listeners, metering, now

peakVars == <<audioPeakDb, peakHold, isMonitoring, audioError, peakHoldTimeRef,
              unlistenRef, listeners, metering, now>>

(* Audio status panel: the peak level it is rendered with, in tenths of a
   dBFS, the class of the meter bar and the class of the level text. *)
VARIABLES panelPeakDb, meterColor, levelColor

panelVars == <<panelPeakDb, meterColor, levelColor>>

(* Startup of the equalizer hook: how far loadInitialState has got, and the
   settings the backend returned to its getSettings call. *)
VARIABLES loadStep, settingsReply

startupVars == <<loadStep, settingsReply>>

vars == <<abVars, eqVars, mathVars, biquadVars, statVars, peakVars, panelVars,
          startupVars>>

(* calls: the bag of tauri invokes whose promise has not settled yet, each with
   the outcome the backend produced for it *)
InFlight == BagToSet(calls)
Quiescent == calls = EmptyBag

Invoke(call) ==
    /\ BagCardinality(calls) < MaxInFlight /\ invoked < MaxInvokes
    /\ calls' = calls (+) SetToBag({call})
    /\ invoked' = invoked + 1
Settle(c) == calls' = calls (-) SetToBag({c}) /\ UNCHANGED invoked
Continue(c, d) == calls' = (calls (-) SetToBag({c})) (+) SetToBag({d}) /\ UNCHANGED invoked

(* ---------------------------------------------------------------------- *)
(* Backend session commands                                                *)
(* ---------------------------------------------------------------------- *)

(* auto trim = peakA - peakB of the two presets *)
PeakOf(p) == IF p = "P" THEN 2 ELSE 1
AutoTrimOf(a, b) == PeakOf(a) - PeakOf(b)

ABStateForUI(s) ==
    [mode |-> s.mode, state |-> s.state, current_trial |-> s.current,
     total_trials |-> s.total, trim_db |-> s.trim, auto_trim_db |-> s.autoTrim,
     active_option |-> s.active, preset_a |-> s.presetA, preset_b |-> s.presetB]

StartValid(a) == a.presetA # a.presetB /\ a.totalTrials >= 1

NewSession(a) ==
    [mode |-> a.mode, state |-> "running", current |-> 0, total |-> a.totalTrials,
     trim |-> IF a.trimDb = Null THEN AutoTrimOf(a.presetA, a.presetB) ELSE a.trimDb[1],
     autoTrim |-> AutoTrimOf(a.presetA, a.presetB), active |-> Null,
     presetA |-> a.presetA, presetB |-> a.presetB, answers |-> <<>>]

TrialActive == abSession # Null /\ abSession[1].state = "running"

ActiveOptionOf(option) ==
    IF option \in {"A", "1"} THEN Some("a")
    ELSE IF option \in {"B", "2"} THEN Some("b") ELSE Some("x")

(* shown, the trial on screen when the answer was given, is bookkeeping *)
Recorded(s, answer, shown) ==
    LET n == s.current + 1
    IN [s EXCEPT !.answers = Append(@, [trial |-> s.current, user_choice |-> answer,
                                        shown |-> shown]),
                 !.current = n,
                 !.state = IF n >= s.total THEN "results" ELSE "running"]

ABSessionResults(s) ==
    [mode |-> s.mode, preset_a |-> s.presetA, preset_b |-> s.presetB,
     trim_db |-> s.trim, total_trials |-> s.total, answers |-> s.answers]

(* each command yields the session it leaves and the outcome of its promise *)
start_ab_session(a) ==
    IF StartValid(a)
    THEN [session |-> Some(NewSession(a)), ok |-> TRUE,
          st |-> Some(ABStateForUI(NewSession(a)))]
    ELSE [session |-> abSession, ok |-> FALSE, st |-> Null]

(* a playback side effect; audioOk: whether the audio-apply collaborator succeeds *)
apply_ab_option(option, audioOk) ==
    IF TrialActive /\ audioOk
    THEN [session |-> Some([abSession[1] EXCEPT !.active = ActiveOptionOf(option)]),
          ok |-> TRUE]
    ELSE [session |-> abSession, ok |-> FALSE]

get_ab_state == IF abSession = Null THEN Null ELSE Some(ABStateForUI(abSession[1]))

record_ab_answer(answer, shown) ==
    IF TrialActive
    THEN [session |-> Some(Recorded(abSession[1], answer, shown)), ok |-> TRUE,
          st |-> Some(ABStateForUI(Recorded(abSession[1], answer, shown)))]
    ELSE [session |-> abSession, ok |-> FALSE, st |-> Null]

finish_ab_session ==
    IF abSession # Null /\ abSession[1].state = "results" /\ abSession[1].answers # <<>>
    THEN [ok |-> TRUE, res |-> Some(ABSessionResults(abSession[1]))]
    ELSE [ok |-> FALSE, res |-> Null]

(* only in Running; re-applies the active option with the new trim *)
update_ab_trim(trimDb, audioOk) ==
    IF TrialActive /\ audioOk
    THEN [session |-> Some([abSession[1] EXCEPT !.trim = trimDb]), ok |-> TRUE]
    ELSE [session |-> abSession, ok |-> FALSE]

(* ---------------------------------------------------------------------- *)
(* ABTestPage: which screen is rendered, and the controls of each screen   *)
(* ---------------------------------------------------------------------- *)
SetupScreen == phase = "setup"
TestScreen == phase = "running" /\ sessionState # Null
NewTestButton == phase # "setup"
StartButton == ~isLoading /\ setup.presetA # "" /\ setup.presetB # ""
SwitchButtons(mode) ==
    IF mode = "abx" THEN {"A", "B", "X"}
    ELSE IF mode = "blindab" THEN {"1", "2"} ELSE {"A", "B"}
AnswerButtons(mode) ==
    IF mode = "abx" THEN {"X is A", "X is B"}
    ELSE IF mode = "blindab" THEN {"Option 1", "Option 2"} ELSE {"A", "B"}

(* ---------------------------------------------------------------------- *)
(* useABTest: the hook's operations                                        *)
(* ---------------------------------------------------------------------- *)
DEFAULT_TOTAL_TRIALS == 10
Keys == {"1", "2", " ", "x"}

(* number of recordAnswer calls made since a session was started with nothing
   else in flight; -1 outside such a run *)
CountRecord(n) == IF n < 0 THEN -1 ELSE IF n > MaxTrials THEN n ELSE n + 1

updateSetup ==
    /\ \/ \E p \in PresetsA : setup' = [setup EXCEPT !.presetA = p] /\ UNCHANGED manualTrim
       \/ \E p \in PresetsB : setup' = [setup EXCEPT !.presetB = p] /\ UNCHANGED manualTrim
       \/ \E m \in Modes : setup' = [setup EXCEPT !.mode = m] /\ UNCHANGED manualTrim
       \/ \E n \in TrialCounts : setup' = [setup EXCEPT !.totalTrials = n]
                                 /\ UNCHANGED manualTrim
       \/ \E t \in ManualTrims : setup' = [setup EXCEPT !.trimDb = Some(t)]
                                 /\ manualTrim' = Some(t)
    /\ setup' # setup
    /\ UNCHANGED <<phase, sessionState, results, error, isLoading, autoTrimDb,
                   abSession, ipc, recCalls>>

(* startSession that does not compare the two presets *)
startSessionUnchecked ==
    IF setup.presetA = "" \/ setup.presetB = ""
    THEN /\ error' = Some("Please select both presets")
         /\ UNCHANGED <<phase, sessionState, results, isLoading, setup, autoTrimDb,
                        abSession, ipc, manualTrim, recCalls>>
    ELSE /\ setup.totalTrials <= MaxTrials
         /\ isLoading' = TRUE
         /\ error' = Null
         /\ LET r == start_ab_session(setup)
            IN /\ abSession' = r.session
               /\ Invoke([op |-> "start", setup |-> setup, ok |-> r.ok, st |-> r.st])
         /\ recCalls' = -1
         /\ UNCHANGED <<phase, sessionState, results, setup, autoTrimDb, manualTrim>>

startSession ==
    IF setup.presetA = "" \/ setup.presetB = ""
    THEN /\ error' = Some("Please select both presets")
         /\ UNCHANGED <<phase, sessionState, results, isLoading, setup, autoTrimDb,
                        abSession, ipc, manualTrim, recCalls>>
    ELSE IF setup.presetA = setup.presetB
    THEN /\ error' = Some("Presets must be different")
         /\ UNCHANGED <<phase, sessionState, results, isLoading, setup, autoTrimDb,
                        abSession, ipc, manualTrim, recCalls>>
    ELSE /\ setup.totalTrials <= MaxTrials
         /\ isLoading' = TRUE
         /\ error' = Null
         /\ LET r == start_ab_session(setup)
            IN /\ abSession' = r.session
               /\ Invoke([op |-> "start", setup |-> setup, ok |-> r.ok, st |-> r.st])
         /\ recCalls' = -1
         /\ UNCHANGED <<phase, sessionState, results, setup, autoTrimDb, manualTrim>>

startSessionSettled(c) ==
    /\ c.op = "start"
    /\ IF c.ok
       THEN /\ sessionState' = c.st
            /\ phase' = "running"
            /\ autoTrimDb' = c.st[1].auto_trim_db
            /\ setup' = IF c.setup.trimDb = Null
                        THEN [setup EXCEPT !.trimDb = Some(c.st[1].auto_trim_db)]
                        ELSE setup
            /\ recCalls' = IF BagCardinality(calls) = 1 THEN 0 ELSE -1
            /\ UNCHANGED error
       ELSE /\ error' = Some("error")
            /\ UNCHANGED <<sessionState, phase, autoTrimDb, setup, recCalls>>
    /\ isLoading' = FALSE
    /\ Settle(c)
    /\ UNCHANGED <<results, abSession, manualTrim>>

(* the option a hotkey applies, by the mode and active option of the session shown *)
KeyOption(key, st) ==
    IF key = "1" THEN (IF st.mode = "ab" THEN "A" ELSE "1")
    ELSE IF key = "2" THEN (IF st.mode = "ab" THEN "B" ELSE "2")
    ELSE IF key = " "
         THEN (IF st.mode \in {"abx", "ab"}
               THEN (IF st.active_option = Some("a") THEN "B" ELSE "A")
               ELSE (IF st.active_option = Some("a") THEN "2" ELSE "1"))
    ELSE "X"

handleApplyOption(option) ==
    /\ \E audioOk \in BOOLEAN :
         LET r == apply_ab_option(option, audioOk)
         IN /\ abSession' = r.session
            /\ Invoke([op |-> "apply", ok |-> r.ok])
    /\ UNCHANGED <<abHook, manualTrim, recCalls>>

SwitchButtonClick ==
    \E option \in SwitchButtons(sessionState[1].mode) : handleApplyOption(option)

handleKeyDown ==
    /\ phase = "running" /\ sessionState # Null
    /\ \E key \in Keys :
         /\ key = "x" => sessionState[1].mode = "abx"
         /\ handleApplyOption(KeyOption(key, sessionState[1]))

(* applyABOption resolved: the handler goes on to getABState *)
handleApplyOptionApplied(c) ==
    /\ c.op = "apply" /\ c.ok
    /\ Continue(c, [op |-> "get", st |-> get_ab_state])
    /\ UNCHANGED <<abHook, abSession, manualTrim, recCalls>>

(* the catch branch also drops the session shown *)
handleApplyOptionFailedDropsState(c) ==
    /\ c.op = "apply" /\ ~c.ok
    /\ error' = Some("error")
    /\ sessionState' = Null
    /\ Settle(c)
    /\ UNCHANGED <<phase, results, isLoading, setup, autoTrimDb,
                   abSession, manualTrim, recCalls>>

(* applyABOption rejected: the catch branch *)
handleApplyOptionFailed(c) ==
    /\ c.op = "apply" /\ ~c.ok
    /\ error' = Some("error")
    /\ Settle(c)
    /\ UNCHANGED <<phase, sessionState, results, isLoading, setup, autoTrimDb,
                   abSession, manualTrim, recCalls>>

(* the state refresh also moves the phase to results *)
handleApplyOptionStateSetsPhase(c) ==
    /\ c.op = "get"
    /\ sessionState' = IF c.st # Null THEN c.st ELSE sessionState
    /\ phase' = IF c.st # Null /\ c.st[1].state = "results" THEN "results" ELSE phase
    /\ Settle(c)
    /\ UNCHANGED <<results, error, isLoading, setup, autoTrimDb,
                   abSession, manualTrim, recCalls>>

handleApplyOptionState(c) ==
    /\ c.op = "get"
    /\ sessionState' = IF c.st # Null THEN c.st ELSE sessionState
    /\ Settle(c)
    /\ UNCHANGED <<phase, results, error, isLoading, setup, autoTrimDb,
                   abSession, manualTrim, recCalls>>

(* shown: the trial on screen when the answer button is pressed *)
recordAnswer ==
    \E answer \in AnswerButtons(sessionState[1].mode) :
      /\ isLoading' = TRUE
      /\ LET r == record_ab_answer(answer, sessionState[1].current_trial)
         IN /\ abSession' = r.session
            /\ Invoke([op |-> "record", ok |-> r.ok, st |-> r.st])
      /\ recCalls' = CountRecord(recCalls)
      /\ UNCHANGED <<phase, sessionState, results, error, setup, autoTrimDb, manualTrim>>

(* the phase is moved to results as soon as the last answer is recorded,
   before finishABSession has delivered the results *)
recordAnswerSettledSetsPhase(c) ==
    /\ c.op = "record"
    /\ IF c.ok
       THEN /\ sessionState' = c.st
            /\ IF c.st[1].state = "results"
               THEN /\ Continue(c, [op |-> "finish", ok |-> finish_ab_session.ok,
                                    res |-> finish_ab_session.res])
                    /\ phase' = "results"
                    /\ UNCHANGED isLoading
               ELSE /\ Settle(c)
                    /\ isLoading' = FALSE
                    /\ UNCHANGED phase
            /\ UNCHANGED error
       ELSE /\ error' = Some("error")
            /\ isLoading' = FALSE
            /\ Settle(c)
            /\ UNCHANGED <<sessionState, phase>>
    /\ UNCHANGED <<results, setup, autoTrimDb, abSession, manualTrim, recCalls>>

recordAnswerSettled(c) ==
    /\ c.op = "record"
    /\ IF c.ok
       THEN /\ sessionState' = c.st
            /\ IF c.st[1].state = "results"
               THEN /\ Continue(c, [op |-> "finish", ok |-> finish_ab_session.ok,
                                    res |-> finish_ab_session.res])
                    /\ UNCHANGED isLoading
               ELSE /\ Settle(c)
                    /\ isLoading' = FALSE
            /\ UNCHANGED error
       ELSE /\ error' = Some("error")
            /\ isLoading' = FALSE
            /\ Settle(c)
            /\ UNCHANGED sessionState
    /\ UNCHANGED <<phase, results, setup, autoTrimDb, abSession, manualTrim, recCalls>>

(* finishABSession resolved, but the phase is not moved to results *)
recordAnswerFinishedNoPhase(c) ==
    /\ c.op = "finish"
    /\ IF c.ok
       THEN /\ results' = c.res
            /\ UNCHANGED <<error, phase>>
       ELSE /\ error' = Some("error")
            /\ UNCHANGED <<results, phase>>
    /\ isLoading' = FALSE
    /\ Settle(c)
    /\ UNCHANGED <<sessionState, setup, autoTrimDb, abSession, manualTrim, recCalls>>

recordAnswerFinished(c) ==
    /\ c.op = "finish"
    /\ IF c.ok
       THEN /\ results' = c.res
            /\ phase' = "results"
            /\ UNCHANGED error
       ELSE /\ error' = Some("error")
            /\ UNCHANGED <<results, phase>>
    /\ isLoading' = FALSE
    /\ Settle(c)
    /\ UNCHANGED <<sessionState, setup, autoTrimDb, abSession, manualTrim, recCalls>>

updateTrim ==
    \E trimDb \in ManualTrims :
      /\ setup' = [setup EXCEPT !.trimDb = Some(trimDb)]
      /\ manualTrim' = Some(trimDb)
      /\ IF phase = "running"
         THEN \E audioOk \in BOOLEAN :
                LET r == update_ab_trim(trimDb, audioOk)
                IN /\ abSession' = r.session
                   /\ Invoke([op |-> "trim", ok |-> r.ok])
         ELSE UNCHANGED <<ipc, abSession>>
      /\ UNCHANGED <<phase, sessionState, results, error, isLoading, autoTrimDb, recCalls>>

(* updateABTrim settled: a rejection is only logged to the console *)
updateTrimSettled(c) ==
    /\ c.op = "trim"
    /\ Settle(c)
    /\ UNCHANGED <<abHook, abSession, manualTrim, recCalls>>

resetSession ==
    /\ phase' = "setup"
    /\ sessionState' = Null
    /\ results' = Null
    /\ error' = Null
    /\ setup' = [setup EXCEPT !.trimDb = Null]
    /\ recCalls' = -1
    /\ UNCHANGED <<isLoading, autoTrimDb, abSession, ipc, manualTrim>>

resetTrimToAuto ==
    /\ setup' = [setup EXCEPT !.trimDb = Null]
    /\ manualTrim' = Null
    /\ UNCHANGED <<phase, sessionState, results, error, isLoading, autoTrimDb,
                   abSession, ipc, recCalls>>

(* ---------------------------------------------------------------------- *)
(* useEqualizer, the equalizer page and the band editor                    *)
(* ---------------------------------------------------------------------- *)
Gains == {0, 3}
Frequencies == {1000, 2000}
QFactors == {141, 200}
Preamps == {0, -3}
FilterTypes == <<"peaking", "lowshelf", "highshelf">>

(* q_factor in hundredths; a new band has no `enabled` field *)
createDefaultBand(id) ==
    [id |-> id, filter_type |-> "peaking", frequency |-> 1000, gain |-> 0,
     q_factor |-> 141, enabled |-> Null]

(* the fields that reach the backend: id and enabled are dropped *)
toRustBands(bs) ==
    [i \in 1..Len(bs) |->
        [filter_type |-> bs[i].filter_type, frequency |-> bs[i].frequency,
         gain |-> bs[i].gain, q_factor |-> bs[i].q_factor]]

(* apply_profile: writes the configuration EqualizerAPO reads, or fails *)
apply_profile(bs, p, ok) == IF ok THEN [bands |-> bs, preamp |-> p] ELSE liveConfig

applyProfile(bs, p) ==
    /\ BagCardinality(applyCalls) < MaxInFlight
    /\ \E ok \in BOOLEAN :
         /\ liveConfig' = apply_profile(toRustBands(bs), p, ok)
         /\ applyCalls' = applyCalls (+) SetToBag({[ok |-> ok]})

Edit == edits < MaxEdits /\ edits' = edits + 1

addBand ==
    /\ Edit
    /\ Len(bands) < MaxBands
    /\ bands' = Append(bands, createDefaultBand(nextId))
    /\ nextId' = nextId + 1
    /\ UNCHANGED <<preamp, syncStatus, eqError, applyTimeout, applyCalls, liveConfig>>

removeBand ==
    /\ Edit
    /\ \E i \in DOMAIN bands :
         bands' = SelectSeq(bands, LAMBDA b : b.id # bands[i].id)
    /\ UNCHANGED <<preamp, syncStatus, eqError, applyTimeout, applyCalls, liveConfig, nextId>>

updateBand(id, field, value) ==
    bands' = [i \in DOMAIN bands |->
                 IF bands[i].id = id THEN [bands[i] EXCEPT ![field] = value] ELSE bands[i]]

(* arms the 250 ms timer with the bands and preamp it was called with *)
debouncedApply(bandsToApply, preampValue) ==
    /\ syncStatus' = "pending"
    /\ applyTimeout' = Some([bands |-> bandsToApply, preamp |-> preampValue])

(* the page's onApply: the bands and preamp of the render the handler runs in *)
handleApplyDebounced == debouncedApply(bands, preamp)

NextType(t) ==
    LET k == CHOOSE i \in DOMAIN FilterTypes : FilterTypes[i] = t
    IN FilterTypes[(k % Len(FilterTypes)) + 1]

handleGainChange ==
    /\ Edit
    /\ \E i \in DOMAIN bands, g \in Gains :
         /\ g # bands[i].gain
         /\ updateBand(bands[i].id, "gain", g)
    /\ handleApplyDebounced
    /\ UNCHANGED <<preamp, eqError, applyCalls, liveConfig, nextId>>

cycleFilterType ==
    /\ Edit
    /\ \E i \in DOMAIN bands :
         updateBand(bands[i].id, "filter_type", NextType(bands[i].filter_type))
    /\ handleApplyDebounced
    /\ UNCHANGED <<preamp, eqError, applyCalls, liveConfig, nextId>>

toggleEnabled ==
    /\ Edit
    /\ \E i \in DOMAIN bands :
         updateBand(bands[i].id, "enabled", Some(bands[i].enabled # Some(TRUE)))
    /\ handleApplyDebounced
    /\ UNCHANGED <<preamp, eqError, applyCalls, liveConfig, nextId>>

(* the input loses focus, or Enter: the value typed may be the band's own *)
handleFreqBlur ==
    /\ Edit
    /\ \E i \in DOMAIN bands, f \in Frequencies :
         updateBand(bands[i].id, "frequency", f)
    /\ handleApplyDebounced
    /\ UNCHANGED <<preamp, eqError, applyCalls, liveConfig, nextId>>

handleQBlur ==
    /\ Edit
    /\ \E i \in DOMAIN bands, q \in QFactors :
         updateBand(bands[i].id, "q_factor", q)
    /\ handleApplyDebounced
    /\ UNCHANGED <<preamp, eqError, applyCalls, liveConfig, nextId>>

handlePreampChange ==
    /\ Edit
    /\ \E value \in Preamps :
         /\ value # preamp
         /\ preamp' = value
         /\ debouncedApply(bands, value)
    /\ UNCHANGED <<bands, eqError, applyCalls, liveConfig, nextId>>

(* the timer expires: the callback up to its await *)
ApplyTimeoutFires ==
    /\ applyTimeout # Null
    /\ syncStatus' = "syncing"
    /\ applyProfile(applyTimeout[1].bands, applyTimeout[1].preamp)
    /\ applyTimeout' = Null
    /\ UNCHANGED <<bands, preamp, eqError, nextId, edits>>

(* applyProfile settled: the rest of the callback, or its catch *)
ApplyProfileSettled(c) ==
    /\ applyCalls' = applyCalls (-) SetToBag({c})
    /\ IF c.ok
       THEN syncStatus' = "synced" /\ eqError' = Null
       ELSE syncStatus' = "error" /\ eqError' = Some("error")
    /\ UNCHANGED <<bands, preamp, applyTimeout, liveConfig, nextId, edits>>

forceSync ==
    /\ syncStatus' = "syncing"
    /\ applyProfile(bands, preamp)
    /\ UNCHANGED <<bands, preamp, eqError, applyTimeout, nextId, edits>>

ConfigPaths == {Null, Some("c")}

(* update_settings: stores the settings, or fails *)
update_settings(settings, ok) == IF ok THEN settings ELSE savedSettings

updateSettings(bs, p, path, ok) ==
    savedSettings' = update_settings([bands |-> toRustBands(bs), preamp |-> p,
                                      config_path |-> path], ok)

(* loadInitialState: the bands of the stored settings, with fresh ids *)
bandsWithIds(rustBands) ==
    [i \in DOMAIN rustBands |->
        [id |-> i, filter_type |-> rustBands[i].filter_type,
         frequency |-> rustBands[i].frequency, gain |-> rustBands[i].gain,
         q_factor |-> rustBands[i].q_factor, enabled |-> Null]]

setCustomConfigPath ==
    /\ Edit
    /\ \E path \in ConfigPaths : path # configPath /\ configPath' = path
    /\ UNCHANGED <<bands, preamp, syncStatus, eqError, applyTimeout, applyCalls,
                   liveConfig, nextId>>

(* the persist effect: runs after a render in which bands, preamp or configPath
   changed, and re-arms the 500 ms timer with the new values *)
persist ==
    /\ saveTimeout' = IF <<bands', preamp', configPath'>> # <<bands, preamp, configPath>>
                      THEN Some([bands |-> bands', preamp |-> preamp',
                                 configPath |-> configPath'])
                      ELSE saveTimeout
    /\ UNCHANGED savedSettings

(* the save timer expires: updateSettings(...).catch(console.error) *)
SaveTimeoutFires ==
    /\ saveTimeout # Null
    /\ \E ok \in BOOLEAN :
         updateSettings(saveTimeout[1].bands, saveTimeout[1].preamp,
                        saveTimeout[1].configPath, ok)
    /\ saveTimeout' = Null
    /\ UNCHANGED <<bands, preamp, syncStatus, eqError, applyTimeout, applyCalls,
                   liveConfig, nextId, edits, configPath>>

(* after loadInitialState: the settings are loaded and applied *)
EqInit ==
    /\ bands = <<createDefaultBand(1)>>
    /\ preamp = 0
    /\ syncStatus = "synced"
    /\ eqError = Null
    /\ applyTimeout = Null
    /\ applyCalls = EmptyBag
    /\ liveConfig = [bands |-> toRustBands(bands), preamp |-> preamp]
    /\ nextId = 2
    /\ edits = 0
    /\ configPath = Null
    /\ saveTimeout = Some([bands |-> bands, preamp |-> preamp, configPath |-> configPath])
    /\ savedSettings = [bands |-> toRustBands(bands), preamp |-> preamp,
                        config_path |-> configPath]

ABInit ==
    /\ phase = "setup"
    /\ sessionState = Null
    /\ results = Null
    /\ error = Null
    /\ isLoading = FALSE
    /\ setup = [presetA |-> "", presetB |-> "", mode |-> "blindab",
                totalTrials |-> DEFAULT_TOTAL_TRIALS, trimDb |-> Null]
    /\ autoTrimDb = 0
    /\ abSession = Null
    /\ calls = EmptyBag
    /\ invoked = 0
    /\ manualTrim = Null
    /\ recCalls = -1

(* ------------------------------------------------------------------------ *)
(* The spectrum evaluator: lib/audio-math.ts, eq-graph.tsx, PeakMeter          *)
(* ------------------------------------------------------------------------ *)
(* Levels are integers in hundredths of a dB, frequencies in hundredths of a
   Hz, q factors in hundredths. *)
FREQUENCY_GRAPH_POINTS == 200
NUM_POINTS == FREQUENCY_GRAPH_POINTS
MaxCfgBands == 2
MathGains == {0, 300, -600}
MathPreamps == {-300, -297, 0, 3, 5}
Enabled == {Null, Some(TRUE), Some(FALSE)}

(* 10^(LOG_FREQ_MIN + (i / (N - 1)) * (LOG_FREQ_MAX - LOG_FREQ_MIN)) for
   i = 0 .. N - 1, as the loop of audio-math.ts computes it, in hundredths of
   a Hz *)
GridCentiHz ==
    <<
        2000, 2071, 2144, 2220, 2298, 2379, 2463, 2550, 2640, 2733, 2830, 2930, 3033, 3141, 3252, 3366,
        3485, 3608, 3736, 3868, 4004, 4146, 4292, 4444, 4601, 4763, 4932, 5106, 5286, 5473, 5666, 5866,
        6074, 6288, 6510, 6740, 6978, 7225, 7480, 7744, 8018, 8301, 8594, 8898, 9212, 9537, 9874, 10223,
        10584, 10958, 11345, 11746, 12160, 12590, 13035, 13495, 13972, 14465, 14976, 15505, 16053, 16620, 17207, 17815,
        18444, 19095, 19770, 20468, 21191, 21940, 22715, 23517, 24348, 25208, 26098, 27020, 27974, 28962, 29985, 31045,
        32141, 33276, 34452, 35669, 36928, 38233, 39583, 40981, 42429, 43928, 45479, 47086, 48749, 50471, 52254, 54099,
        56010, 57988, 60037, 62157, 64353, 66626, 68979, 71416, 73938, 76550, 79254, 82053, 84951, 87952, 91059, 94275,
        97605, 101053, 104622, 108317, 112143, 116105, 120206, 124451, 128847, 133398, 138110, 142989, 148039, 153268, 158682, 164287,
        170090, 176098, 182318, 188758, 195425, 202328, 209474, 216873, 224534, 232464, 240676, 249177, 257978, 267090, 276524, 286292,
        296404, 306874, 317713, 328935, 340554, 352583, 365037, 377930, 391280, 405100, 419409, 434224, 449561, 465440, 481881, 498902,
        516524, 534768, 553657, 573214, 593460, 614423, 636125, 658594, 681857, 705941, 730877, 756693, 783420, 811092, 839741, 869403,
        900112, 931905, 964822, 998901, 1034184, 1070713, 1108533, 1147688, 1188227, 1230197, 1273650, 1318638, 1365214, 1413436, 1463361, 1515050,
        1568564, 1623969, 1681331, 1740718, 1802204, 1865861, 1931766, 2000000>>

(* the loop that fills FREQUENCIES when the module is loaded *)
FrequencyGridShort == [i \in 1..(FREQUENCY_GRAPH_POINTS - 1) |-> GridCentiHz[i]]

FrequencyGrid == [i \in 1..FREQUENCY_GRAPH_POINTS |-> GridCentiHz[i]]

(* the values of calcBiquadMagnitudeDb at the grid frequencies for a band at
   1000 Hz with q 1.41 and sample rate 48000, per filter type and gain, in
   hundredths of a dB *)
MagnitudeCentiDb ==
    <<"peaking", 300>> :> <<
        0, 0, 0, 0, 0, 0, 0, 0, 0, 0, 0, 0, 0, 0, 0, 0,
        0, 0, 0, 0, 0, 0, 0, 0, 0, 0, 0, 0, 0, 0, 0, 1,
        1, 1, 1, 1, 1, 1, 1, 1, 1, 1, 1, 1, 1, 1, 2, 2,
        2, 2, 2, 2, 2, 2, 3, 3, 3, 3, 4, 4, 4, 4, 5, 5,
        5, 6, 6, 7, 7, 8, 9, 9, 10, 11, 12, 12, 13, 15, 16, 17,
        18, 20, 22, 24, 26, 28, 30, 33, 36, 39, 43, 47, 52, 57, 62, 69,
        76, 84, 92, 102, 113, 126, 139, 155, 171, 189, 208, 227, 246, 264, 280, 292,
        299, 300, 295, 285, 271, 254, 235, 215, 196, 178, 161, 145, 131, 118, 106, 96,
        86, 78, 71, 64, 58, 53, 48, 44, 40, 37, 34, 31, 28, 26, 24, 22,
        20, 19, 17, 16, 15, 13, 12, 11, 11, 10, 9, 8, 8, 7, 7, 6,
        6, 5, 5, 4, 4, 4, 3, 3, 3, 3, 3, 2, 2, 2, 2, 2,
        2, 1, 1, 1, 1, 1, 1, 1, 1, 1, 1, 0, 0, 0, 0, 0,
        0, 0, 0, 0, 0, 0, 0, 0>> @@
    <<"peaking", -600>> :> <<
        0, 0, 0, 0, 0, 0, 0, 0, 0, 0, 0, 0, 0, 0, 0, 0,
        0, 0, 0, 0, -1, -1, -1, -1, -1, -1, -1, -1, -1, -1, -1, -1,
        -1, -1, -1, -1, -2, -2, -2, -2, -2, -2, -2, -3, -3, -3, -3, -3,
        -4, -4, -4, -5, -5, -5, -6, -6, -7, -7, -8, -8, -9, -9, -10, -11,
        -12, -12, -13, -14, -16, -17, -18, -19, -21, -23, -24, -26, -28, -31, -33, -36,
        -39, -42, -45, -49, -53, -58, -63, -69, -75, -82, -89, -97, -106, -117, -128, -140,
        -154, -170, -188, -207, -229, -253, -279, -309, -341, -376, -413, -451, -490, -526, -558, -583,
        -597, -599, -590, -569, -539, -504, -466, -428, -390, -354, -321, -290, -262, -237, -215, -194,
        -176, -160, -145, -132, -120, -109, -100, -91, -83, -76, -70, -64, -59, -54, -50, -46,
        -42, -39, -36, -33, -31, -28, -26, -24, -22, -21, -19, -18, -16, -15, -14, -13,
        -12, -11, -10, -9, -9, -8, -7, -7, -6, -6, -5, -5, -5, -4, -4, -3,
        -3, -3, -3, -2, -2, -2, -2, -2, -1, -1, -1, -1, -1, -1, -1, -1,
        -1, 0, 0, 0, 0, 0, 0, 0>> @@
    <<"lowshelf", 300>> :> <<
        300, 300, 300, 300, 300, 299, 299, 299, 299, 299, 299, 299, 299, 299, 299, 299,
        299, 299, 299, 299, 299, 298, 298, 298, 298, 298, 298, 298, 298, 297, 297, 297,
        297, 296, 296, 296, 296, 295, 295, 295, 294, 294, 294, 293, 293, 292, 292, 291,
        290, 290, 289, 288, 288, 287, 286, 285, 284, 283, 282, 281, 280, 278, 277, 276,
        274, 273, 271, 269, 268, 266, 264, 262, 260, 258, 255, 253, 251, 248, 246, 243,
        241, 238, 235, 233, 230, 227, 224, 221, 219, 216, 213, 210, 207, 204, 201, 198,
        195, 192, 190, 187, 184, 181, 178, 176, 173, 170, 168, 165, 162, 160, 157, 154,
        152, 149, 147, 144, 141, 139, 136, 133, 131, 128, 125, 123, 120, 117, 114, 111,
        109, 106, 103, 100, 97, 94, 91, 88, 85, 82, 79, 76, 73, 71, 68, 65,
        62, 59, 57, 54, 52, 49, 47, 44, 42, 40, 38, 36, 34, 32, 30, 28,
        26, 25, 23, 22, 20, 19, 18, 17, 15, 14, 13, 12, 11, 11, 10, 9,
        8, 8, 7, 6, 6, 5, 5, 4, 4, 4, 3, 3, 2, 2, 2, 2,
        1, 1, 1, 1, 1, 1, 0, 0>> @@
    <<"lowshelf", -600>> :> <<
        -599, -599, -599, -599, -599, -599, -599, -599, -599, -599, -598, -598, -598, -598, -598, -598,
        -598, -598, -597, -597, -597, -597, -596, -596, -596, -596, -595, -595, -595, -594, -594, -594,
        -593, -593, -592, -591, -591, -590, -590, -589, -588, -587, -586, -585, -584, -583, -582, -581,
        -580, -579, -577, -576, -574, -572, -570, -569, -567, -564, -562, -560, -557, -555, -552, -549,
        -546, -543, -540, -536, -532, -529, -525, -521, -517, -512, -508, -503, -498, -494, -489, -483,
        -478, -473, -468, -462, -457, -451, -445, -440, -434, -428, -422, -417, -411, -405, -400, -394,
        -388, -383, -377, -371, -366, -361, -355, -350, -345, -339, -334, -329, -324, -319, -314, -309,
        -304, -298, -293, -288, -283, -278, -273, -268, -263, -257, -252, -247, -241, -236, -230, -225,
        -219, -214, -208, -202, -197, -191, -185, -179, -173, -167, -162, -156, -150, -144, -139, -133,
        -128, -122, -117, -112, -106, -101, -96, -92, -87, -83, -78, -74, -70, -66, -62, -59,
        -55, -52, -49, -46, -43, -40, -37, -35, -32, -30, -28, -26, -24, -22, -21, -19,
        -18, -16, -15, -14, -12, -11, -10, -9, -8, -7, -7, -6, -5, -5, -4, -4,
        -3, -3, -2, -2, -1, -1, -1, -1>> @@
    <<"highshelf", 300>> :> <<
        0, 0, 0, 0, 0, 1, 1, 1, 1, 1, 1, 1, 1, 1, 1, 1,
        1, 1, 1, 1, 1, 2, 2, 2, 2, 2, 2, 2, 2, 3, 3, 3,
        3, 4, 4, 4, 4, 5, 5, 5, 6, 6, 6, 7, 7, 8, 8, 9,
        10, 10, 11, 12, 12, 13, 14, 15, 16, 17, 18, 19, 20, 22, 23, 24,
        26, 27, 29, 31, 32, 34, 36, 38, 40, 42, 45, 47, 49, 52, 54, 57,
        59, 62, 65, 67, 70, 73, 76, 79, 81, 84, 87, 90, 93, 96, 99, 102,
        105, 108, 110, 113, 116, 119, 122, 124, 127, 130, 132, 135, 138, 140, 143, 146,
        148, 151, 153, 156, 159, 161, 164, 167, 169, 172, 175, 177, 180, 183, 186, 189,
        191, 194, 197, 200, 203, 206, 209, 212, 215, 218, 221, 224, 227, 229, 232, 235,
        238, 241, 243, 246, 248, 251, 253, 256, 258, 260, 262, 264, 266, 268, 270, 272,
        274, 275, 277, 278, 280, 281, 282, 283, 285, 286, 287, 288, 289, 289, 290, 291,
        292, 292, 293, 294, 294, 295, 295, 296, 296, 296, 297, 297, 298, 298, 298, 298,
        299, 299, 299, 299, 299, 299, 300, 300>> @@
    <<"highshelf", -600>> :> <<
        -1, -1, -1, -1, -1, -1, -1, -1, -1, -1, -2, -2, -2, -2, -2, -2,
        -2, -2, -3, -3, -3, -3, -4, -4, -4, -4, -5, -5, -5, -6, -6, -6,
        -7, -7, -8, -9, -9, -10, -10, -11, -12, -13, -14, -15, -16, -17, -18, -19,
        -20, -21, -23, -24, -26, -28, -30, -31, -33, -36, -38, -40, -43, -45, -48, -51,
        -54, -57, -60, -64, -68, -71, -75, -79, -83, -88, -92, -97, -102, -106, -111, -117,
        -122, -127, -132, -138, -143, -149, -155, -160, -166, -172, -178, -183, -189, -195, -200, -206,
        -212, -217, -223, -229, -234, -239, -245, -250, -255, -261, -266, -271, -276, -281, -286, -291,
        -296, -302, -307, -312, -317, -322, -327, -332, -337, -343, -348, -353, -359, -364, -370, -375,
        -381, -386, -392, -398, -403, -409, -415, -421, -427, -433, -438, -444, -450, -456, -461, -467,
        -472, -478, -483, -488, -494, -499, -504, -508, -513, -517, -522, -526, -530, -534, -538, -541,
        -545, -548, -551, -554, -557, -560, -563, -565, -568, -570, -572, -574, -576, -578, -579, -581,
        -582, -584, -585, -586, -588, -589, -590, -591, -592, -593, -593, -594, -595, -595, -596, -596,
        -597, -597, -598, -598, -599, -599, -599, -599>>

(* calcBiquadMagnitudeDb(FREQUENCIES[i], band.frequency, band.gain,
   band.q_factor, band.filter_type, sampleRate): with gain 0 the normalized
   numerator and denominator are the same and the result is 0 *)
calcBiquadMagnitudeDb(i, band) ==
    IF band.gain = 0 THEN 0 ELSE MagnitudeCentiDb[<<band.filter_type, band.gain>>][i]

(* Math.round(x * 10) / 10 *)
RoundTenth(c) == ((c + 5) \div 10) * 10

(* the inner loop of calculatePeakGain: every band is added *)
RECURSIVE TotalDb(_, _, _)
TotalDb(bs, i, n) ==
    IF n = 0 THEN 0 ELSE TotalDb(bs, i, n - 1) + calcBiquadMagnitudeDb(i, bs[n])

(* the outer loop of calculatePeakGain over the grid points lo..hi, run as its
   first half followed by its second half; Null is -Infinity *)
RECURSIVE MaxDb(_, _, _, _, _)
MaxDb(bs, p, lo, hi, maxDb) ==
    IF lo > hi THEN maxDb
    ELSE IF lo = hi
    THEN LET totalDb == p + TotalDb(bs, lo, Len(bs))
         IN  IF maxDb = Null \/ totalDb > maxDb[1] THEN Some(totalDb) ELSE maxDb
    ELSE LET mid == (lo + hi) \div 2
             firstHalf == MaxDb(bs, p, lo, mid, maxDb)
         IN  IF firstHalf = Null THEN MaxDb(bs, p, mid + 1, hi, Null)
             ELSE MaxDb(bs, p, mid + 1, hi, Some(firstHalf[1]))

calculatePeakGainFromZero(bs, p) ==
    LET maxDb == MaxDb(bs, p, 1, Len(FREQUENCIES), Some(0))
    IN  IF maxDb = Null THEN Null ELSE RoundTenth(maxDb[1])

calculatePeakGain(bs, p) ==
    LET maxDb == MaxDb(bs, p, 1, Len(FREQUENCIES), Null)
    IN  IF maxDb = Null THEN Null ELSE RoundTenth(maxDb[1])

(* the inner loop of useFrequencyResponse: only a band whose enabled is truthy
   is added *)
RECURSIVE EnabledDb(_, _, _)
EnabledDb(bs, i, n) ==
    IF n = 0 THEN 0
    ELSE EnabledDb(bs, i, n - 1) +
         (IF bs[n].enabled = Some(TRUE) THEN calcBiquadMagnitudeDb(i, bs[n]) ELSE 0)

useFrequencyResponse(bs, p) ==
    [i \in 1..NUM_POINTS |-> p + EnabledDb(bs, i, Len(bs))]

(* PeakMeter: isClipping = peakDb > 0.05 *)
PeakMeterInclusive(peakDb) == peakDb >= 0

PeakMeter(peakDb) == peakDb > 5

(* the page renders the graph and the peak meter for the configuration *)
render ==
    /\ response = Null
    /\ response' = Some(useFrequencyResponse(cfgBands, cfgPreamp))
    /\ peakGain' = Some(calculatePeakGain(cfgBands, cfgPreamp))
    /\ isClipping' = Some(PeakMeter(peakGain'[1]))
    /\ UNCHANGED <<FREQUENCIES, cfgBands, cfgPreamp>>

MathBands ==
    [filter_type : {FilterTypes[k] : k \in 1..3}, frequency : {1000}, gain : MathGains,
     q_factor : {141}, enabled : Enabled]

Configurations == UNION {[1..n -> MathBands] : n \in 0..MaxCfgBands}

MathIdle ==
    /\ FREQUENCIES = FrequencyGrid
    /\ cfgBands = <<>>
    /\ cfgPreamp = 0
    /\ response = Null
    /\ peakGain = Null
    /\ isClipping = Null

MathInputs ==
    /\ FREQUENCIES = FrequencyGrid
    /\ cfgBands \in Configurations
    /\ cfgPreamp \in MathPreamps
    /\ response = Null
    /\ peakGain = Null
    /\ isClipping = Null

(* ------------------------------------------------------------------------ *)
(* calcBiquadMagnitudeDb of lib/audio-math.ts, statement by statement          *)
(* ------------------------------------------------------------------------ *)
(* A number is <<"fin", v>> with v in thousandths, <<"nan", 0>> or
   <<"inf", sign>>; the arithmetic is that of IEEE 754 on these values.
   Frequencies and sample rates are whole Hz, gains hundredths of a dB. *)
Scale == 1000
Fin(v) == <<"fin", v>>
NaN == <<"nan", 0>>
PosInf == <<"inf", 1>>
NegInf == <<"inf", -1>>
One == Fin(Scale)
Two == Fin(2 * Scale)

IsNaN(x) == x[1] = "nan"
IsInf(x) == x[1] = "inf"
IsFinite(x) == x[1] = "fin"
SignOf(x) == IF x[2] < 0 THEN -1 ELSE 1
Abs(n) == IF n < 0 THEN -n ELSE n

XNeg(x) == IF IsNaN(x) THEN NaN ELSE <<x[1], -x[2]>>

XAdd(x, y) ==
    IF IsNaN(x) \/ IsNaN(y) THEN NaN
    ELSE IF IsInf(x) /\ IsInf(y) THEN (IF x[2] = y[2] THEN x ELSE NaN)
    ELSE IF IsInf(x) THEN x
    ELSE IF IsInf(y) THEN y
    ELSE Fin(x[2] + y[2])

XSub(x, y) == XAdd(x, XNeg(y))

XMul(x, y) ==
    IF IsNaN(x) \/ IsNaN(y) THEN NaN
    ELSE IF IsInf(x) \/ IsInf(y)
    THEN (IF x[2] = 0 \/ y[2] = 0 THEN NaN ELSE <<"inf", SignOf(x) * SignOf(y)>>)
    ELSE Fin(SignOf(x) * SignOf(y) * ((Abs(x[2]) * Abs(y[2])) \div Scale))

XDiv(x, y) ==
    IF IsNaN(x) \/ IsNaN(y) THEN NaN
    ELSE IF IsInf(x) THEN (IF IsInf(y) THEN NaN ELSE <<"inf", SignOf(x) * SignOf(y)>>)
    ELSE IF IsInf(y) THEN Fin(0)
    ELSE IF y[2] = 0 THEN (IF x[2] = 0 THEN NaN ELSE <<"inf", SignOf(x)>>)
    ELSE Fin(SignOf(x) * SignOf(y) * ((Abs(x[2]) * Scale) \div Abs(y[2])))

XMax(x, y) ==
    IF IsNaN(x) \/ IsNaN(y) THEN NaN
    ELSE IF IsInf(x) THEN (IF x[2] > 0 THEN x ELSE y)
    ELSE IF IsInf(y) THEN (IF y[2] > 0 THEN y ELSE x)
    ELSE IF x[2] >= y[2] THEN x ELSE y

(* the integer square root of n, searched between lo and hi *)
RECURSIVE Isqrt(_, _, _)
Isqrt(n, lo, hi) ==
    IF lo >= hi THEN lo
    ELSE LET mid == (lo + hi + 1) \div 2
         IN  IF mid * mid <= n THEN Isqrt(n, mid, hi) ELSE Isqrt(n, lo, mid - 1)

XSqrt(x) ==
    IF IsNaN(x) THEN NaN
    ELSE IF IsInf(x) THEN (IF x[2] > 0 THEN PosInf ELSE NaN)
    ELSE IF x[2] < 0 THEN NaN
    ELSE Fin(Isqrt(x[2] * Scale, 0, 40000))

(* Math.cos and Math.sin of 2 * PI * f / sampleRate, for f = 0 .. sampleRate *)
CosTable ==
    12 :> <<1000, 866, 500, 0, -500, -866, -1000, -866, -500, 0, 500, 866, 1000>> @@
    16 :> <<1000, 924, 707, 383, 0, -383, -707, -924, -1000, -924, -707, -383, 0, 383, 707, 924, 1000>>

SinTable ==
    12 :> <<0, 500, 866, 1000, 866, 500, 0, -500, -866, -1000, -866, -500, 0>> @@
    16 :> <<0, 383, 707, 924, 1000, 924, 707, 383, 0, -383, -707, -924, -1000, -924, -707, -383, 0>>

Cos(f, sampleRate) == Fin(CosTable[sampleRate][f + 1])
Sin(f, sampleRate) == Fin(SinTable[sampleRate][f + 1])

(* Math.pow(10, gainDb / 40): 1 for 0 dB, overflow to Infinity above
   12330 dB and underflow to 0 below -12960 dB *)
AmplitudeOf(gainDb) ==
    IF IsNaN(gainDb) THEN NaN
    ELSE IF IsInf(gainDb) THEN (IF gainDb[2] > 0 THEN PosInf ELSE Fin(0))
    ELSE IF gainDb[2] > 1233000 THEN PosInf
    ELSE IF gainDb[2] < -1296000 THEN Fin(0)
    ELSE CASE gainDb[2] = 0 -> Fin(1000)
           [] gainDb[2] = 300 -> Fin(1189)
           [] gainDb[2] = 1200 -> Fin(1995)
           [] gainDb[2] = -600 -> Fin(708)

(* 10^(d / 10) for d = -30 .. 30 *)
DecibelSteps ==
    <<1, 1, 2, 2, 3, 3, 4, 5, 6, 8, 10, 13, 16, 20, 25, 32, 40, 50, 63, 79, 100, 126, 158, 200, 251, 316, 398, 501, 631, 794, 1000, 1259, 1585, 1995, 2512, 3162, 3981, 5012, 6310, 7943, 10000, 12589, 15849, 19953, 25119, 31623, 39811, 50119, 63096, 79433, 100000, 125893, 158489, 199526, 251189, 316228, 398107, 501187, 630957, 794328, 1000000>>

(* 10 * Math.log10(x), in hundredths of a dB, to the whole dB below *)
TenLog10(x) ==
    IF IsNaN(x) THEN NaN
    ELSE IF IsInf(x) THEN (IF x[2] > 0 THEN PosInf ELSE NaN)
    ELSE IF x[2] < 0 THEN NaN
    ELSE IF x[2] = 0 THEN NegInf
    ELSE LET d == CHOOSE k \in 1..61 :
                      /\ (k = 1 \/ DecibelSteps[k] <= x[2])
                      /\ (k = 61 \/ x[2] < DecibelSteps[k + 1])
         IN  Fin(100 * (d - 31))

ToLowerCase(t) == IF t = "HS" THEN "hs" ELSE t

normalizeFilterType(type) ==
    LET t == ToLowerCase(type)
    IN  IF t \in {"peaking", "pk", "peq"} THEN "peaking"
        ELSE IF t \in {"lowshelf", "ls", "lsc", "low shelf"} THEN "lowshelf"
        ELSE IF t \in {"highshelf", "hs", "hsc", "high shelf"} THEN "highshelf"
        ELSE "peaking"

Min(m, n) == IF m <= n THEN m ELSE n
Max(m, n) == IF m >= n THEN m ELSE n

(* 1. Clamp frequencies to Nyquist limit *)
safeFcNoMargin(fc, sampleRate) == Max(1, Min(fc, sampleRate \div 2))

safeFc(fc, sampleRate) == Max(1, Min(fc, sampleRate \div 2 - 1))

safeFreq(freq, sampleRate) == Max(0, Min(freq, sampleRate \div 2))

(* the coefficients <<b0, b1, b2, a0, a1, a2>> of the peaking filter *)
peakingCoefficientsSignError(A, cosW0, sinW0, q) ==
    LET alpha == XDiv(sinW0, XMul(Two, q))
    IN  << XAdd(One, XMul(alpha, A)), XMul(XNeg(Two), cosW0), XSub(One, XMul(alpha, A)),
           XAdd(One, XDiv(alpha, A)), XMul(XNeg(Two), cosW0), XAdd(One, XDiv(alpha, A)) >>

peakingCoefficients(A, cosW0, sinW0, q) ==
    LET alpha == XDiv(sinW0, XMul(Two, q))
    IN  << XAdd(One, XMul(alpha, A)), XMul(XNeg(Two), cosW0), XSub(One, XMul(alpha, A)),
           XAdd(One, XDiv(alpha, A)), XMul(XNeg(Two), cosW0), XSub(One, XDiv(alpha, A)) >>

(* the coefficients of the shelving filters; the floor 0.0001 of safeQ is
   below the resolution and is 0 here *)
shelfCoefficients(filterType, A, cosW0, sinW0, q) ==
    LET safeQ == XMax(Fin(0), q)
        S == XDiv(One, XMul(Two, XMul(safeQ, safeQ)))
        alpha == XMul(XDiv(sinW0, Two),
                      XSqrt(XAdd(XMul(XAdd(A, XDiv(One, A)), XSub(XDiv(One, S), One)), Two)))
        sqrtA == XSqrt(A)
        Ap1 == XAdd(A, One)
        Am1 == XSub(A, One)
        beta == XMul(XMul(Two, sqrtA), alpha)
    IN  IF filterType = "lowshelf"
        THEN << XMul(A, XAdd(XSub(Ap1, XMul(Am1, cosW0)), beta)),
                XMul(XMul(Two, A), XSub(Am1, XMul(Ap1, cosW0))),
                XMul(A, XSub(XSub(Ap1, XMul(Am1, cosW0)), beta)),
                XAdd(XAdd(Ap1, XMul(Am1, cosW0)), beta),
                XMul(XNeg(Two), XAdd(Am1, XMul(Ap1, cosW0))),
                XSub(XAdd(Ap1, XMul(Am1, cosW0)), beta) >>
        ELSE << XMul(A, XAdd(XAdd(Ap1, XMul(Am1, cosW0)), beta)),
                XMul(XMul(XNeg(Two), A), XAdd(Am1, XMul(Ap1, cosW0))),
                XMul(A, XSub(XAdd(Ap1, XMul(Am1, cosW0)), beta)),
                XAdd(XSub(Ap1, XMul(Am1, cosW0)), beta),
                XMul(Two, XSub(Am1, XMul(Ap1, cosW0))),
                XSub(XSub(Ap1, XMul(Am1, cosW0)), beta) >>

(* Safety check for invalid magnitude, then the conversion to dB *)
magnitudeDbUnguarded(magSquared) ==
    IF IsFinite(magSquared) /\ magSquared[2] <= 0 THEN Fin(-10000)
    ELSE TenLog10(magSquared)

magnitudeDb(magSquared) ==
    IF (~IsNaN(magSquared) /\ magSquared[2] <= 0) \/ ~IsFinite(magSquared) THEN Fin(-10000)
    ELSE TenLog10(magSquared)

(* the whole of calcBiquadMagnitudeDb, keeping its intermediate values *)
biquad(freq, fc, gainDb, q, filterTypeStr, sampleRate) ==
    LET sFc == safeFc(fc, sampleRate)
        sFreq == safeFreq(freq, sampleRate)
        A == AmplitudeOf(gainDb)
        cosW0 == Cos(sFc, sampleRate)
        sinW0 == Sin(sFc, sampleRate)
        filterType == normalizeFilterType(filterTypeStr)
        c == IF filterType = "peaking" THEN peakingCoefficients(A, cosW0, sinW0, q)
             ELSE shelfCoefficients(filterType, A, cosW0, sinW0, q)
        b0 == XDiv(c[1], c[4])
        b1 == XDiv(c[2], c[4])
        b2 == XDiv(c[3], c[4])
        a1 == XDiv(c[5], c[4])
        a2 == XDiv(c[6], c[4])
        cosW == Cos(sFreq, sampleRate)
        cos2W == Cos(2 * sFreq, sampleRate)
        sinW == Sin(sFreq, sampleRate)
        sin2W == Sin(2 * sFreq, sampleRate)
        numReal == XAdd(XAdd(b0, XMul(b1, cosW)), XMul(b2, cos2W))
        numImag == XNeg(XAdd(XMul(b1, sinW), XMul(b2, sin2W)))
        denReal == XAdd(XAdd(One, XMul(a1, cosW)), XMul(a2, cos2W))
        denImag == XNeg(XAdd(XMul(a1, sinW), XMul(a2, sin2W)))
        magSquared == XDiv(XAdd(XMul(numReal, numReal), XMul(numImag, numImag)),
                           XAdd(XMul(denReal, denReal), XMul(denImag, denImag)))
    IN  [safeFc |-> sFc, safeFreq |-> sFreq, b |-> <<b0, b1, b2>>, a |-> <<One, a1, a2>>,
         magSquared |-> magSquared, result |-> magnitudeDb(magSquared)]

SampleRates == {12, 16}
InputFrequencies == {-3, 0, 2, 6, 8, 20}
InputGains == {Fin(0), Fin(300), Fin(1200), Fin(-600), Fin(100000000), Fin(-100000000),
               NaN, PosInf, NegInf}
InputQs == {Fin(0), Fin(-1000), Fin(100), Fin(707), Fin(1410), NaN}
FilterTypeStrs == {"peaking", "lowshelf", "highshelf", "HS", "unknown"}

evaluate ==
    /\ biquadOut = Null
    /\ biquadOut' = Some(biquad(biquadArgs.freq, biquadArgs.fc, biquadArgs.gainDb,
                                biquadArgs.q, biquadArgs.filterTypeStr,
                                biquadArgs.sampleRate))
    /\ UNCHANGED biquadArgs

BiquadIdle ==
    /\ biquadArgs = Null
    /\ biquadOut = Null

BiquadInputs ==
    /\ biquadArgs \in [freq : InputFrequencies, fc : InputFrequencies, gainDb : InputGains,
                       q : InputQs, filterTypeStr : FilterTypeStrs,
                       sampleRate : SampleRates]
    /\ biquadOut = Null

(* ------------------------------------------------------------------------ *)
(* binomialTest of the statistics guide, with p = 0.5                          *)
(* ------------------------------------------------------------------------ *)
(* A probability is the integer number of the 2^trials equally likely answer
   sequences it covers: Math.pow(0.5, k) * Math.pow(0.5, trials - k) is
   2^-trials for every k. *)
MaxStatTrials == 20

RECURSIVE Pow2(_)
Pow2(n) == IF n = 0 THEN 1 ELSE 2 * Pow2(n - 1)

(* binomialCoeff(n, k): "n choose k" *)
RECURSIVE binomialCoeff(_, _)
binomialCoeff(n, k) ==
    IF k = 0 THEN 1 ELSE (binomialCoeff(n, k - 1) * (n - k + 1)) \div k

pmf(n, k) == binomialCoeff(n, k)

(* the loop of binomialTest from outcome k on, one-sided variant: only the
   outcomes at or above the observed one are added *)
RECURSIVE binomialLoopUpper(_, _, _, _)
binomialLoopUpper(s, n, k, acc) ==
    IF k > n THEN acc
    ELSE binomialLoopUpper(s, n, k + 1,
             IF pmf(n, k) <= pmf(n, s) /\ k # s /\ k > s THEN acc + pmf(n, k) ELSE acc)

(* the loop of binomialTest from outcome k on *)
RECURSIVE binomialLoop(_, _, _, _)
binomialLoop(s, n, k, acc) ==
    IF k > n THEN acc
    ELSE binomialLoop(s, n, k + 1,
             IF pmf(n, k) <= pmf(n, s) /\ k # s THEN acc + pmf(n, k) ELSE acc)

binomialTestOneSided(s, n) == Min(binomialLoopUpper(s, n, 0, pmf(n, s)), Pow2(n))

binomialTest(s, n) == Min(binomialLoop(s, n, 0, pmf(n, s)), Pow2(n))

calculate ==
    /\ pValue = Null
    /\ pValue' = Some(binomialTest(successes, trials))
    /\ UNCHANGED <<successes, trials>>

StatIdle ==
    /\ successes = 0
    /\ trials = 0
    /\ pValue = Null

StatInputs ==
    /\ trials \in 0..MaxStatTrials
    /\ successes \in 0..trials
    /\ pValue = Null

(* ---------------------------------------------------------------------- *)
(* Audio status hook: peak meter and peak hold                             *)
(* ---------------------------------------------------------------------- *)

MaxNow == 3000
MaxListeners == 2
TickMs == 500
PEAK_HOLD_MS == 1000
SILENCE_DB == -100

(* Peak readings the backend reports, in dBFS. *)
PeakReadings == {-60, -20, -6}

(* The backend's start_peak_meter and stop_peak_meter commands. *)
start_peak_meter(ok) == IF ok THEN TRUE ELSE metering
stop_peak_meter(ok) == IF ok THEN FALSE ELSE metering

(* One peak_meter_update listener: `captured` is the peakHold of the render
   whose startMonitoring registered it; st is <<peakHold, peakHoldTimeRef>>. *)
listener(captured, peak_db, st) ==
    IF peak_db > captured \/ now - st[2] > PEAK_HOLD_MS
    THEN <<peak_db, now>>
    ELSE st

RECURSIVE dispatch(_, _, _)
dispatch(ls, peak_db, st) ==
    IF ls = <<>> THEN st
    ELSE dispatch(Tail(ls), peak_db, listener(Head(ls), peak_db, st))

(* startMonitoring: subscribes a listener, then starts the backend meter. *)
startMonitoring ==
    /\ ~isMonitoring
    /\ Len(listeners) < MaxListeners
    /\ listeners' = Append(listeners, peakHold)
    /\ unlistenRef' = TRUE
    /\ \E ok \in BOOLEAN :
         /\ metering' = start_peak_meter(ok)
         /\ IF ok
            THEN isMonitoring' = TRUE /\ audioError' = Null
            ELSE isMonitoring' = FALSE /\ audioError' = Some("start_peak_meter")
    /\ UNCHANGED <<audioPeakDb, peakHold, peakHoldTimeRef, now>>

(* stopMonitoring: stops the backend meter, then drops the last subscription. *)
stopMonitoring ==
    /\ isMonitoring
    /\ \E ok \in BOOLEAN :
         /\ metering' = stop_peak_meter(ok)
         /\ IF ok
            THEN /\ listeners' = IF unlistenRef
                                 THEN SubSeq(listeners, 1, Len(listeners) - 1)
                                 ELSE listeners
                 /\ unlistenRef' = FALSE
                 /\ isMonitoring' = FALSE
                 /\ audioPeakDb' = SILENCE_DB
                 /\ peakHold' = SILENCE_DB
            ELSE UNCHANGED <<listeners, unlistenRef, isMonitoring, audioPeakDb, peakHold>>
    /\ UNCHANGED <<audioError, peakHoldTimeRef, now>>

(* The backend emits peak_meter_update; every registered listener runs. *)
peak_meter_update(peak_db) ==
    /\ metering
    /\ listeners # <<>>
    /\ audioPeakDb' = peak_db
    /\ LET st == dispatch(listeners, peak_db, <<peakHold, peakHoldTimeRef>>)
       IN /\ peakHold' = st[1]
          /\ peakHoldTimeRef' = st[2]
    /\ UNCHANGED <<isMonitoring, audioError, unlistenRef, listeners, metering, now>>

(* Wall-clock time passes. *)
Tick ==
    /\ now + TickMs <= MaxNow
    /\ now' = now + TickMs
    /\ UNCHANGED <<audioPeakDb, peakHold, isMonitoring, audioError, peakHoldTimeRef,
                   unlistenRef, listeners, metering>>

PeakInit ==
    /\ audioPeakDb = SILENCE_DB
    /\ peakHold = SILENCE_DB
    /\ isMonitoring = FALSE
    /\ audioError = Null
    /\ peakHoldTimeRef = 0
    /\ unlistenRef = FALSE
    /\ listeners = <<>>
    /\ metering = FALSE
    /\ now = 0

(* ---------------------------------------------------------------------- *)
(* Audio status panel: colour coding of the peak meter                     *)
(* ---------------------------------------------------------------------- *)

(* Levels are in tenths of a dB: -0.5 dB is -5, -6 dB is -60, -20 dB is -200. *)
PanelLevels == -250 .. 50

(* getPeakMeterColorClass *)
getPeakMeterColorClass(db) ==
    IF db > -5 THEN "bg-red-500"
    ELSE IF db > -60 THEN "bg-yellow-500"
    ELSE IF db > -200 THEN "bg-green-500"
    ELSE "bg-green-600/60"

(* AudioStatusPanel: isClipping, isWarning and the class of the level text. *)
levelTextClass(db) ==
    LET clipping == db > -5
        warning == db > -60
    IN IF clipping THEN "text-red-500"
       ELSE IF warning /\ ~clipping THEN "text-yellow-500"
       ELSE "text-muted-foreground"

AudioStatusPanel ==
    /\ meterColor = Null
    /\ meterColor' = Some(getPeakMeterColorClass(panelPeakDb))
    /\ levelColor' = Some(levelTextClass(panelPeakDb))
    /\ UNCHANGED panelPeakDb

PanelIdle ==
    /\ panelPeakDb = -1000
    /\ meterColor = Null
    /\ levelColor = Null

PanelInputs ==
    /\ panelPeakDb \in PanelLevels
    /\ meterColor = Null
    /\ levelColor = Null

(* ---------------------------------------------------------------------- *)
(* useEqualizer at startup: loadInitialState and the persist effect        *)
(* ---------------------------------------------------------------------- *)

(* The hook's state before anything is loaded, as the persist effect of the
   first render hands it to the save timer. *)
DefaultState == [bands |-> <<createDefaultBand(1)>>, preamp |-> 0, configPath |-> Null]

(* Settings a previous run left in the backend. *)
StoredBands ==
    {<<>>,
     <<[filter_type |-> "lowshelf", frequency |-> 2000, gain |-> 3, q_factor |-> 200]>>,
     <<[filter_type |-> "peaking", frequency |-> 1000, gain |-> 3, q_factor |-> 141],
       [filter_type |-> "highshelf", frequency |-> 2000, gain |-> 0, q_factor |-> 141]>>}
StoredSettings ==
    [bands : StoredBands, preamp : Preamps, config_path : ConfigPaths]

(* get_settings: the stored settings *)
get_settings == savedSettings

Waiting == loadStep \in {"listProfiles", "getSettings"}

(* listProfiles settled: loadInitialState goes on to getSettings, or its
   catch logs the failure *)
listProfilesSettled ==
    /\ loadStep = "listProfiles"
    /\ \E ok \in BOOLEAN :
         IF ok
         THEN loadStep' = "getSettings" /\ settingsReply' = Some(get_settings)
         ELSE loadStep' = "failed" /\ UNCHANGED settingsReply
    /\ UNCHANGED <<bands, preamp, syncStatus, eqError, applyTimeout, applyCalls,
                   liveConfig, nextId, edits, configPath>>

(* getSettings settled: the hook takes the stored bands, preamp and config
   path and applies them, or its catch logs the failure *)
getSettingsSettled ==
    /\ loadStep = "getSettings"
    /\ \E ok \in BOOLEAN :
         IF ok
         THEN LET settings == settingsReply[1]
                  loaded == IF Len(settings.bands) > 0
                            THEN bandsWithIds(settings.bands)
                            ELSE <<createDefaultBand(1)>>
              IN /\ bands' = loaded
                 /\ preamp' = settings.preamp
                 /\ configPath' = settings.config_path
                 /\ nextId' = Len(loaded) + 1
                 /\ applyProfile(loaded, settings.preamp)
                 /\ loadStep' = "applyProfile"
         ELSE /\ loadStep' = "failed"
              /\ UNCHANGED <<bands, preamp, configPath, nextId, applyCalls, liveConfig>>
    /\ settingsReply' = Null
    /\ UNCHANGED <<syncStatus, eqError, applyTimeout, edits>>

(* the startup applyProfile settled: 'synced', or the catch logs the failure *)
startupApplySettled(c) ==
    /\ loadStep = "applyProfile"
    /\ applyCalls' = applyCalls (-) SetToBag({c})
    /\ IF c.ok
       THEN syncStatus' = "synced" /\ loadStep' = "done"
       ELSE UNCHANGED syncStatus /\ loadStep' = "failed"
    /\ UNCHANGED <<bands, preamp, eqError, applyTimeout, liveConfig, nextId, edits,
                   configPath, settingsReply>>

StartupDone ==
    /\ loadStep = "done"
    /\ settingsReply = Null

(* the first render: default state, listProfiles invoked, save timer armed *)
StartupInit ==
    /\ bands = DefaultState.bands
    /\ preamp = DefaultState.preamp
    /\ configPath = DefaultState.configPath
    /\ syncStatus = "synced"
    /\ eqError = Null
    /\ applyTimeout = Null
    /\ applyCalls = EmptyBag
    /\ savedSettings \in StoredSettings
    /\ liveConfig = [bands |-> savedSettings.bands, preamp |-> savedSettings.preamp]
    /\ nextId = 2
    /\ edits = 0
    /\ saveTimeout = Some(DefaultState)
    /\ loadStep = "listProfiles"
    /\ settingsReply = Null

Init == ABInit /\ EqInit /\ MathIdle /\ BiquadIdle /\ StatIdle /\ PeakInit /\ PanelIdle /\ StartupDone

Next ==
    \/ SetupScreen /\ updateSetup /\ UNCHANGED <<eqVars, mathVars, biquadVars, statVars, peakVars, panelVars, startupVars>>
    \/ SetupScreen /\ StartButton /\ startSession /\ UNCHANGED <<eqVars, mathVars, biquadVars, statVars, peakVars, panelVars, startupVars>>
    \/ \E c \in InFlight : startSessionSettled(c) /\ UNCHANGED <<eqVars, mathVars, biquadVars, statVars, peakVars, panelVars, startupVars>>
    \/ TestScreen /\ SwitchButtonClick /\ UNCHANGED <<eqVars, mathVars, biquadVars, statVars, peakVars, panelVars, startupVars>>
    \/ handleKeyDown /\ UNCHANGED <<eqVars, mathVars, biquadVars, statVars, peakVars, panelVars, startupVars>>
    \/ \E c \in InFlight : handleApplyOptionApplied(c) /\ UNCHANGED <<eqVars, mathVars, biquadVars, statVars, peakVars, panelVars, startupVars>>
    \/ \E c \in InFlight : handleApplyOptionFailed(c) /\ UNCHANGED <<eqVars, mathVars, biquadVars, statVars, peakVars, panelVars, startupVars>>
    \/ \E c \in InFlight : handleApplyOptionState(c) /\ UNCHANGED <<eqVars, mathVars, biquadVars, statVars, peakVars, panelVars, startupVars>>
    \/ TestScreen /\ recordAnswer /\ UNCHANGED <<eqVars, mathVars, biquadVars, statVars, peakVars, panelVars, startupVars>>
    \/ \E c \in InFlight : recordAnswerSettled(c) /\ UNCHANGED <<eqVars, mathVars, biquadVars, statVars, peakVars, panelVars, startupVars>>
    \/ \E c \in InFlight : recordAnswerFinished(c) /\ UNCHANGED <<eqVars, mathVars, biquadVars, statVars, peakVars, panelVars, startupVars>>
    \/ updateTrim /\ UNCHANGED <<eqVars, mathVars, biquadVars, statVars, peakVars, panelVars, startupVars>>
    \/ \E c \in InFlight : updateTrimSettled(c) /\ UNCHANGED <<eqVars, mathVars, biquadVars, statVars, peakVars, panelVars, startupVars>>
    \/ NewTestButton /\ resetSession /\ UNCHANGED <<eqVars, mathVars, biquadVars, statVars, peakVars, panelVars, startupVars>>
    \/ SetupScreen /\ setup.trimDb # Null /\ resetTrimToAuto /\ UNCHANGED <<eqVars, mathVars, biquadVars, statVars, peakVars, panelVars, startupVars>>

Spec == Init /\ [][Next]_vars

NextEq ==
    \/ addBand /\ UNCHANGED configPath /\ persist /\ UNCHANGED <<abVars, mathVars, biquadVars, statVars, peakVars, panelVars, startupVars>>
    \/ removeBand /\ UNCHANGED configPath /\ persist /\ UNCHANGED <<abVars, mathVars, biquadVars, statVars, peakVars, panelVars, startupVars>>
    \/ handleGainChange /\ UNCHANGED configPath /\ persist /\ UNCHANGED <<abVars, mathVars, biquadVars, statVars, peakVars, panelVars, startupVars>>
    \/ cycleFilterType /\ UNCHANGED configPath /\ persist /\ UNCHANGED <<abVars, mathVars, biquadVars, statVars, peakVars, panelVars, startupVars>>
    \/ toggleEnabled /\ UNCHANGED configPath /\ persist /\ UNCHANGED <<abVars, mathVars, biquadVars, statVars, peakVars, panelVars, startupVars>>
    \/ handleFreqBlur /\ UNCHANGED configPath /\ persist /\ UNCHANGED <<abVars, mathVars, biquadVars, statVars, peakVars, panelVars, startupVars>>
    \/ handleQBlur /\ UNCHANGED configPath /\ persist /\ UNCHANGED <<abVars, mathVars, biquadVars, statVars, peakVars, panelVars, startupVars>>
    \/ handlePreampChange /\ UNCHANGED configPath /\ persist /\ UNCHANGED <<abVars, mathVars, biquadVars, statVars, peakVars, panelVars, startupVars>>
    \/ ApplyTimeoutFires /\ UNCHANGED configPath /\ persist /\ UNCHANGED <<abVars, mathVars, biquadVars, statVars, peakVars, panelVars, startupVars>>
    \/ \E c \in BagToSet(applyCalls) :
         ApplyProfileSettled(c) /\ UNCHANGED configPath /\ persist /\ UNCHANGED <<abVars, mathVars, biquadVars, statVars, peakVars, panelVars, startupVars>>
    \/ forceSync /\ UNCHANGED configPath /\ persist /\ UNCHANGED <<abVars, mathVars, biquadVars, statVars, peakVars, panelVars, startupVars>>
    \/ setCustomConfigPath /\ persist /\ UNCHANGED <<abVars, mathVars, biquadVars, statVars, peakVars, panelVars, startupVars>>
    \/ SaveTimeoutFires /\ UNCHANGED <<abVars, mathVars, biquadVars, statVars, peakVars, panelVars, startupVars>>

SpecEq == Init /\ [][NextEq]_vars

NextMath ==
    \/ render /\ UNCHANGED <<abVars, eqVars, biquadVars, statVars, peakVars, panelVars, startupVars>>

InitMath == ABInit /\ EqInit /\ MathInputs /\ BiquadIdle /\ StatIdle /\ PeakInit /\ PanelIdle /\ StartupDone

SpecMath == InitMath /\ [][NextMath]_vars

NextBiquad ==
    \/ evaluate /\ UNCHANGED <<abVars, eqVars, mathVars, statVars, peakVars, panelVars, startupVars>>

InitBiquad == ABInit /\ EqInit /\ MathIdle /\ BiquadInputs /\ StatIdle /\ PeakInit /\ PanelIdle /\ StartupDone

SpecBiquad == InitBiquad /\ [][NextBiquad]_vars

NextStat ==
    \/ calculate /\ UNCHANGED <<abVars, eqVars, mathVars, biquadVars, peakVars, panelVars, startupVars>>

InitStat == ABInit /\ EqInit /\ MathIdle /\ BiquadIdle /\ StatInputs /\ PeakInit /\ PanelIdle /\ StartupDone

SpecStat == InitStat /\ [][NextStat]_vars

NextPeak ==
    \/ startMonitoring /\ UNCHANGED <<abVars, eqVars, mathVars, biquadVars, statVars, panelVars, startupVars>>
    \/ stopMonitoring /\ UNCHANGED <<abVars, eqVars, mathVars, biquadVars, statVars, panelVars, startupVars>>
    \/ \E peak_db \in PeakReadings :
         peak_meter_update(peak_db) /\ UNCHANGED <<abVars, eqVars, mathVars, biquadVars, statVars, panelVars, startupVars>>
    \/ Tick /\ UNCHANGED <<abVars, eqVars, mathVars, biquadVars, statVars, panelVars, startupVars>>

SpecPeak == Init /\ [][NextPeak]_vars

NextPanel ==
    \/ AudioStatusPanel /\ UNCHANGED <<abVars, eqVars, mathVars, biquadVars, statVars, peakVars, startupVars>>

InitPanel ==
    ABInit /\ EqInit /\ MathIdle /\ BiquadIdle /\ StatIdle /\ PeakInit /\ PanelInputs /\ StartupDone

SpecPanel == InitPanel /\ [][NextPanel]_vars

NextStartup ==
    \/ listProfilesSettled /\ persist
         /\ UNCHANGED <<abVars, mathVars, biquadVars, statVars, peakVars, panelVars>>
    \/ getSettingsSettled /\ persist
         /\ UNCHANGED <<abVars, mathVars, biquadVars, statVars, peakVars, panelVars>>
    \/ \E c \in BagToSet(applyCalls) :
         startupApplySettled(c) /\ persist
         /\ UNCHANGED <<abVars, mathVars, biquadVars, statVars, peakVars, panelVars>>
    \/ SaveTimeoutFires
         /\ UNCHANGED <<abVars, mathVars, biquadVars, statVars, peakVars, panelVars,
                        startupVars>>

InitStartup ==
    ABInit /\ StartupInit /\ MathIdle /\ BiquadIdle /\ StatIdle /\ PeakInit /\ PanelIdle

SpecStartup == InitStartup /\ [][NextStartup]_vars

(* ---------------------------------------------------------------------- *)
(* Properties of the A/B test session                                      *)
(* ---------------------------------------------------------------------- *)

(* C1: once the phase is 'results', no later step changes the finished
   session (phase, sessionState, results). *)
C1_ResultsTerminal ==
    [][phase = "results" => UNCHANGED <<phase, sessionState, results>>]_vars

(* C2: when a session was started with totalTrials = N and exactly N
   recordAnswer calls were made in it, then once every call has settled the
   backend session is in state results, the phase is 'results' and results is
   not null. *)
C2_NRecordsReachResults ==
    (Quiescent /\ abSession # Null /\ recCalls >= 1 /\ recCalls = abSession[1].total)
        => /\ abSession[1].state = "results"
           /\ phase = "results"
           /\ results # Null

C2_Witness ==
    /\ Quiescent /\ abSession # Null
    /\ recCalls >= 2 /\ recCalls = abSession[1].total
    /\ phase = "results" /\ results # Null
    /\ Len(results[1].answers) = recCalls

(* the steps of applyOption: the call from a button or a hotkey, and each
   continuation of handleApplyOption *)
ApplyOptionStep ==
    \/ TestScreen /\ SwitchButtonClick
    \/ handleKeyDown
    \/ \E c \in InFlight : handleApplyOptionApplied(c)
    \/ \E c \in InFlight : handleApplyOptionFailed(c)
    \/ \E c \in InFlight : handleApplyOptionState(c)

TrialStateOf(s) == IF s = Null THEN Null
                   ELSE <<s[1].state, s[1].current, s[1].total, s[1].answers>>
TrialShown(st) == IF st = Null THEN Null
                  ELSE <<st[1].state, st[1].current_trial, st[1].total_trials>>
TrialOfSession(s) == IF s = Null THEN Null ELSE <<s[1].state, s[1].current, s[1].total>>

(* no recordAnswer or startSession lies between the applyOption calls in
   flight and now: none is in flight, and both the session shown and every
   state snapshot on its way show the backend's trial *)
NoAnswerBetween ==
    /\ \A c \in InFlight : c.op \in {"apply", "get", "trim"}
    /\ \A c \in InFlight : c.op = "get" => TrialShown(c.st) = TrialOfSession(abSession)
    /\ TrialShown(sessionState) = TrialOfSession(abSession)

(* C3: a step of applyOption leaves the phase, the results, and the backend's
   trial state (state, current trial, total trials, recorded answers)
   unchanged; with no recordAnswer in between it also leaves the state,
   current trial and total trials of the session shown unchanged. *)
C3_ApplyOptionKeepsTrialState ==
    [][ApplyOptionStep =>
         /\ phase' = phase
         /\ results' = results
         /\ TrialStateOf(abSession') = TrialStateOf(abSession)
         /\ NoAnswerBetween => TrialShown(sessionState') = TrialShown(sessionState)]_vars

C3_Witness ==
    /\ phase = "running" /\ Quiescent
    /\ abSession # Null /\ abSession[1].active = Some("b")
    /\ abSession[1].current = 0 /\ abSession[1].answers = <<>>
    /\ sessionState # Null /\ sessionState[1].active_option = Some("b")
    /\ sessionState[1].current_trial = 0

(* C4: every recorded answer is the answer to the trial that was shown when
   it was given. *)
C4_AnswerOncePerTrial ==
    abSession # Null =>
        \A i \in DOMAIN abSession[1].answers :
            abSession[1].answers[i].shown = abSession[1].answers[i].trial

(* C5: while a manual trim supplied by the user has not been reset to auto,
   setup.trimDb is that value. *)
C5_ManualTrimKept ==
    manualTrim # Null => setup.trimDb = manualTrim

(* a failure of the audio apply behind applyOption: in the backend command, and
   in the catch branch of handleApplyOption *)
ApplyOptionFailure ==
    \/ /\ \E option \in {"A", "B", "X", "1", "2"} : handleApplyOption(option)
       /\ calls' = calls (+) SetToBag({[op |-> "apply", ok |-> FALSE]})
    \/ \E c \in InFlight : handleApplyOptionFailed(c)

(* C6: a failed applyOption leaves phase, sessionState, results and the
   backend session unchanged. *)
C6_ApplyFailureKeepsSession ==
    [][ApplyOptionFailure => UNCHANGED <<phase, sessionState, results, abSession>>]_vars

C6_Witness ==
    /\ error = Some("error") /\ recCalls = 0 /\ Quiescent
    /\ TestScreen /\ TrialActive
    /\ sessionState[1].current_trial = abSession[1].current

(* C7: when the backend call of applyOption or of updateTrim has failed, the
   hook's error state is set. *)
C7_FailuresSurfaced ==
    [][(\E c \in InFlight : ~c.ok /\ (handleApplyOptionFailed(c) \/ updateTrimSettled(c)))
         => error' # Null]_vars

(* C8: outside Running, updateTrim changes no trim value and calls no
   backend; in Running it calls the backend trim update. *)
C8_UpdateTrimOnlyRunning ==
    [][updateTrim =>
         IF phase = "running"
         THEN \E c \in BagToSet(calls') : c.op = "trim" /\ calls' = calls (+) SetToBag({c})
         ELSE UNCHANGED <<setup, abSession, calls>>]_vars

StartRejected ==
    \/ startSession /\ (setup.presetA = setup.presetB \/ setup.totalTrials < 1)
    \/ \E c \in InFlight : startSessionSettled(c) /\ ~c.ok

(* C9: a start with identical presets is rejected at once with an error and
   reaches no backend; a start with totalTrials < 1 is rejected by the
   backend and its rejection sets the error; in both, no session is started
   and phase and sessionState are unchanged. *)
C9_InvalidStartRejected ==
    [][/\ StartRejected => UNCHANGED <<phase, sessionState, abSession>>
       /\ startSession /\ setup.presetA = setup.presetB
            => error' # Null /\ UNCHANGED <<calls, isLoading>>
       /\ startSession /\ setup.presetA # setup.presetB /\ setup.totalTrials < 1
            => calls' = calls (+) SetToBag({[op |-> "start", setup |-> setup,
                                             ok |-> FALSE, st |-> Null]})
       /\ (\E c \in InFlight : startSessionSettled(c) /\ ~c.ok) => error' # Null]_vars

C9_Witness ==
    /\ error = Some("error") /\ setup.totalTrials < 1 /\ setup.presetA # setup.presetB
    /\ phase = "setup" /\ sessionState = Null /\ abSession = Null
    /\ Quiescent /\ ~isLoading /\ invoked = 1

(* ---------------------------------------------------------------------- *)
(* Properties of the equalizer                                             *)
(* ---------------------------------------------------------------------- *)

(* no timer is armed, every applyProfile call has settled, the last one
   without error *)
EqSettled ==
    /\ applyTimeout = Null
    /\ applyCalls = EmptyBag
    /\ syncStatus = "synced" /\ eqError = Null

(* C10: once the edits have stopped and every pending timer and applyProfile
   call has completed without error, the configuration EqualizerAPO runs is
   the UI's current bands and preamp. *)
C10_RealTimeSync ==
    EqSettled => liveConfig = [bands |-> toRustBands(bands), preamp |-> preamp]

(* the bands as the UI holds them, without the ids generated on load *)
WithoutId(bs) ==
    [i \in DOMAIN bs |->
        [filter_type |-> bs[i].filter_type, frequency |-> bs[i].frequency,
         gain |-> bs[i].gain, q_factor |-> bs[i].q_factor, enabled |-> bs[i].enabled]]

(* C11: once the changes have stopped and the save timer has run, the settings
   the backend holds give back the UI's bands, preamp and config path. *)
C11_SettingsPersisted ==
    saveTimeout = Null =>
        /\ WithoutId(bandsWithIds(savedSettings.bands)) = WithoutId(bands)
        /\ savedSettings.preamp = preamp
        /\ savedSettings.config_path = configPath

(* ------------------------------------------------------------------------ *)
(* Claims about the spectrum evaluator (SpecMath)                            *)
(* ------------------------------------------------------------------------ *)
Rendered == response # Null

RemoveDisabled(bs) == SelectSeq(bs, LAMBDA b : b.enabled # Some(FALSE))

(* preamp plus the magnitude of every band of bs at grid point i *)
RECURSIVE SumAt(_, _)
SumAt(bs, i) ==
    IF bs = <<>> THEN 0 ELSE calcBiquadMagnitudeDb(i, Head(bs)) + SumAt(Tail(bs), i)

GridSums(bs, p) == {p + SumAt(bs, i) : i \in DOMAIN FREQUENCIES}

RawPeak(bs, p) == CHOOSE m \in GridSums(bs, p) : \A x \in GridSums(bs, p) : x <= m

(* the multiple of a tenth of a dB nearest to c, a tie going up *)
NearestTenth(c) == CHOOSE t \in (c - 5)..(c + 5) : t % 10 = 0 /\ t - 5 <= c /\ c < t + 5

(* C12: the response curve and the peak gain of a configuration are those of
   the configuration with its disabled bands removed. *)
C12_DisabledBandsContributeNothing ==
    Rendered =>
        /\ response[1] = useFrequencyResponse(RemoveDisabled(cfgBands), cfgPreamp)
        /\ peakGain[1] = calculatePeakGain(RemoveDisabled(cfgBands), cfgPreamp)

(* C13 as stated: calculatePeakGain returns the maximum over the grid of preamp
   plus the sum of the bands' magnitudes, and exactly preamp with no bands. *)
C13_PeakIsExactMaximum ==
    Rendered =>
        /\ peakGain[1] = RawPeak(cfgBands, cfgPreamp)
        /\ cfgBands = <<>> => peakGain[1] = cfgPreamp

(* C13 amended: calculatePeakGain returns the maximum over the grid of preamp
   plus the sum of the bands' magnitudes rounded to one decimal, and preamp
   rounded to one decimal with no bands. *)
C13_PeakIsRoundedMaximum ==
    Rendered =>
        /\ peakGain[1] = NearestTenth(RawPeak(cfgBands, cfgPreamp))
        /\ cfgBands = <<>> => peakGain[1] = NearestTenth(cfgPreamp)

C13_Witness ==
    /\ Rendered
    /\ Len(cfgBands) = 2
    /\ peakGain[1] > cfgPreamp + 500
    /\ peakGain[1] # RawPeak(cfgBands, cfgPreamp)

(* C14 as stated: the PeakMeter warns whenever the predicted peak gain is above
   0 dB and shows 'Headroom Safe' only when it is not above 0 dB. *)
C14_WarnsAboveZero ==
    Rendered =>
        /\ RawPeak(cfgBands, cfgPreamp) > 0 => isClipping[1]
        /\ ~isClipping[1] => RawPeak(cfgBands, cfgPreamp) <= 0

(* C14 amended: the PeakMeter warns exactly when the predicted peak gain is
   0.05 dB or more. *)
C14_WarnsFromTolerance ==
    Rendered => (isClipping[1] <=> RawPeak(cfgBands, cfgPreamp) >= 5)

C14_Witness ==
    /\ Rendered
    /\ isClipping[1]
    /\ cfgBands # <<>>
    /\ RawPeak(cfgBands, cfgPreamp) > 0

(* ------------------------------------------------------------------------ *)
(* Claims about calcBiquadMagnitudeDb (SpecBiquad)                           *)
(* ------------------------------------------------------------------------ *)
Evaluated == biquadOut # Null

Nyquist == biquadArgs.sampleRate \div 2

(* C15: calcBiquadMagnitudeDb returns a finite number for every input, and the
   floor -100 whenever the squared magnitude is non-positive or non-finite. *)
C15_ResultFinite ==
    Evaluated =>
        /\ IsFinite(biquadOut[1].result)
        /\ (~IsFinite(biquadOut[1].magSquared) \/ biquadOut[1].magSquared[2] <= 0)
               => biquadOut[1].result = Fin(-10000)

C15_Witness ==
    /\ Evaluated
    /\ biquadArgs.q = Fin(0)
    /\ biquadArgs.filterTypeStr = "peaking"
    /\ biquadArgs.gainDb = Fin(300)
    /\ IsNaN(biquadOut[1].magSquared)
    /\ biquadOut[1].result = Fin(-10000)

(* C16 as stated: the evaluation frequency and the center frequency are both
   clamped into the open interval (0, sampleRate/2), at least 1 Hz below
   Nyquist. *)
C16_BothInsideOpenInterval ==
    Evaluated =>
        /\ 0 < biquadOut[1].safeFc /\ biquadOut[1].safeFc <= Nyquist - 1
        /\ 0 < biquadOut[1].safeFreq /\ biquadOut[1].safeFreq <= Nyquist - 1

(* C16 amended: the center frequency is clamped into [1, sampleRate/2 - 1] and
   the evaluation frequency into the closed interval [0, sampleRate/2]; a
   frequency inside its interval is kept. *)
C16_ClampedToNyquist ==
    Evaluated =>
        /\ 1 <= biquadOut[1].safeFc /\ biquadOut[1].safeFc <= Nyquist - 1
        /\ 0 <= biquadOut[1].safeFreq /\ biquadOut[1].safeFreq <= Nyquist
        /\ biquadArgs.fc \in 1..(Nyquist - 1) => biquadOut[1].safeFc = biquadArgs.fc
        /\ biquadArgs.freq \in 0..Nyquist => biquadOut[1].safeFreq = biquadArgs.freq
        /\ biquadArgs.freq > Nyquist => biquadOut[1].safeFreq = Nyquist
        /\ biquadArgs.freq < 0 => biquadOut[1].safeFreq = 0

C16_Witness ==
    /\ Evaluated
    /\ biquadArgs.freq > Nyquist
    /\ biquadArgs.fc < 0
    /\ biquadOut[1].safeFreq = Nyquist
    /\ biquadOut[1].safeFc = 1

(* C17: with a gain of 0 dB and a positive Q the normalized numerator and
   denominator coefficients are the same and the response is 0 dB, for each
   filter shape, center frequency and evaluation frequency. *)
C17_ZeroGainIsFlat ==
    (Evaluated /\ biquadArgs.gainDb = Fin(0) /\ IsFinite(biquadArgs.q) /\ biquadArgs.q[2] > 0)
        => /\ biquadOut[1].b = biquadOut[1].a
           /\ biquadOut[1].magSquared = One
           /\ biquadOut[1].result = Fin(0)

C17_Witness ==
    /\ Evaluated
    /\ biquadArgs.gainDb = Fin(0)
    /\ biquadArgs.q = Fin(707)
    /\ biquadArgs.filterTypeStr = "lowshelf"
    /\ biquadOut[1].b = biquadOut[1].a
    /\ biquadOut[1].b[3] # One
    /\ biquadOut[1].result = Fin(0)

(* ------------------------------------------------------------------------ *)
(* The frequency grid (SpecMath)                                             *)
(* ------------------------------------------------------------------------ *)
(* 200 points, strictly increasing, each 10^(3/199) = 1.035 times the one
   before, from 20 Hz to 20000 Hz *)
GridShape ==
    /\ Len(FREQUENCIES) = 200
    /\ FREQUENCIES[1] = 2000
    /\ FREQUENCIES[Len(FREQUENCIES)] = 2000000
    /\ \A i \in 1..(Len(FREQUENCIES) - 1) :
          /\ FREQUENCIES[i] < FREQUENCIES[i + 1]
          /\ (FREQUENCIES[i + 1] * 1000) \div FREQUENCIES[i] = 1035

AllEnabled == \A k \in DOMAIN cfgBands : cfgBands[k].enabled = Some(TRUE)

CurveMaximum == CHOOSE m \in {response[1][i] : i \in DOMAIN response[1]} :
                    \A i \in DOMAIN response[1] : response[1][i] <= m

(* the curve has one point per grid frequency, and the peak gain is the
   (rounded) maximum of the curve when every band is enabled *)
SameGrid ==
    Rendered =>
        /\ DOMAIN response[1] = DOMAIN FREQUENCIES
        /\ AllEnabled => peakGain[1] = NearestTenth(CurveMaximum)

(* C18: the grid is one constant of 200 logarithmically spaced, strictly
   increasing points from 20 Hz to 20000 Hz, the curve and the peak gain are
   evaluated on it, and no step changes it. *)
C18_SharedGrid ==
    /\ [](GridShape /\ SameGrid)
    /\ [][FREQUENCIES' = FREQUENCIES]_vars

C18_Witness ==
    /\ Rendered
    /\ Len(cfgBands) = 2
    /\ AllEnabled
    /\ cfgBands[1].gain = 300
    /\ cfgBands[2].gain = -600
    /\ peakGain[1] > cfgPreamp
    /\ GridShape

(* ------------------------------------------------------------------------ *)
(* Claims about binomialTest (SpecStat)                                      *)
(* ------------------------------------------------------------------------ *)
(* the number of answer sequences of n trials with an outcome in outcomes *)
RECURSIVE MassOf(_, _)
MassOf(n, outcomes) ==
    IF outcomes = {} THEN 0
    ELSE LET j == CHOOSE x \in outcomes : TRUE
         IN  binomialCoeff(n, j) + MassOf(n, outcomes \ {j})

(* the outcomes at most as probable as k *)
AtMostAsProbable(n, k) == {j \in 0..n : binomialCoeff(n, j) <= binomialCoeff(n, k)}

TwoTailedMass(n, k) == MassOf(n, AtMostAsProbable(n, k))

(* C19: binomialTest(k, n, 0.5) is the Binomial(n, 0.5) probability of the
   outcomes at most as probable as k, capped at 1, and is below 0.001 for 18
   correct of 20. *)
C19_TwoTailedExact ==
    pValue # Null =>
        /\ MassOf(trials, 0..trials) = Pow2(trials)
        /\ pValue[1] = Min(TwoTailedMass(trials, successes), Pow2(trials))
        /\ AtMostAsProbable(trials, successes) =
               {j \in 0..trials : Abs(2 * j - trials) >= Abs(2 * successes - trials)}
        /\ (trials = 20 /\ successes = 18) => pValue[1] * 1000 < Pow2(trials)

C19_Witness ==
    /\ pValue # Null
    /\ trials = 20
    /\ successes = 18
    /\ pValue[1] = 422

(* ---------------------------------------------------------------------- *)
(* Properties of the peak hold                                             *)
(* ---------------------------------------------------------------------- *)

(* C20: peak hold of 1 second.  On every peak_meter_update, a reading higher
   than the held value becomes the held value at once; a reading that is
   not higher leaves the held value as it is while no more than 1 second
   has passed since the held value was last set, so within that second a
   lower reading never lowers peakHold. *)
C20_PeakHeldForOneSecond ==
    [][\A peak_db \in PeakReadings :
          peak_meter_update(peak_db) =>
              /\ peak_db > peakHold => peakHold' = peak_db
              /\ (peak_db <= peakHold /\ now - peakHoldTimeRef <= PEAK_HOLD_MS) =>
                     peakHold' = peakHold]_vars

(* ---------------------------------------------------------------------- *)
(* Properties of the peak meter colour coding                              *)
(* ---------------------------------------------------------------------- *)

GreenClasses == {"bg-green-500", "bg-green-600/60"}

(* C21: the meter bar is green exactly when the level is below -6 dB,
   yellow exactly when it is from -6 dB to -0.5 dB inclusive, and red
   exactly when it is above -0.5 dB; the level text is yellow and red on
   the same levels as the bar. *)
C21_ColourCoding ==
    meterColor # Null =>
        /\ meterColor[1] \in GreenClasses <=> panelPeakDb < -60
        /\ meterColor[1] = "bg-yellow-500" <=> (-60 <= panelPeakDb /\ panelPeakDb <= -5)
        /\ meterColor[1] = "bg-red-500" <=> panelPeakDb > -5
        /\ levelColor[1] = "text-yellow-500" <=> meterColor[1] = "bg-yellow-500"
        /\ levelColor[1] = "text-red-500" <=> meterColor[1] = "bg-red-500"

(* ---------------------------------------------------------------------- *)
(* Further properties of the A/B test hook                                 *)
(* ---------------------------------------------------------------------- *)

(* The hook as resetSession leaves it. *)
FreshSetup == phase = "setup" /\ sessionState = Null /\ results = Null

(* C22: after 'New Test' the hook stays in phase 'setup' with no session
   state and no results until a startSession succeeds; the response of a
   call that was still in flight when the reset happened changes none of
   the three. *)
C22_ResetHoldsUntilStart ==
    [][FreshSetup =>
          \/ FreshSetup'
          \/ \E c \in InFlight : c.op = "start" /\ c.ok /\ startSessionSettled(c)]_vars

(* C23: in every reachable state of the hook the screen of the current
   phase can be rendered: phase 'running' comes with a session state and
   phase 'results' comes with results. *)
C23_PhaseHasItsData ==
    /\ phase = "running" => sessionState # Null
    /\ phase = "results" => results # Null

(* The results screen is reached by way of a running session, with a
   response still to arrive. *)
C23_Witness ==
    /\ phase = "results" /\ results # Null /\ sessionState # Null
    /\ ~Quiescent

(* What the test screen shows of a session state, and the same of the
   backend's session. *)
OptionAndTrialShown == <<sessionState[1].active_option, sessionState[1].current_trial>>
OptionAndTrialOfSession == <<abSession[1].active, abSession[1].current>>

(* A response of the running session is delivered to the hook. *)
ResponseStep ==
    \E c \in InFlight :
        \/ handleApplyOptionState(c)
        \/ recordAnswerSettled(c)

(* C25: last call wins.  Once every call in flight has completed, the active
   option and current trial shown are those of the backend's session; and no
   response delivered to the hook, a stale getABState response included,
   makes the current trial shown decrease. *)
C25_LastCallWins ==
    /\ [](Quiescent /\ phase = "running" /\ sessionState # Null /\ abSession # Null
            => OptionAndTrialShown = OptionAndTrialOfSession)
    /\ [][(ResponseStep /\ sessionState # Null /\ sessionState' # Null)
            => sessionState'[1].current_trial >= sessionState[1].current_trial]_vars

(* ---------------------------------------------------------------------- *)
(* Further properties of the equalizer                                     *)
(* ---------------------------------------------------------------------- *)

(* C24: the sync status reads 'synced' only when no debounced apply timer is
   armed and no applyProfile call is in flight, so an edit made while an
   earlier apply is in flight keeps the status at 'pending' or 'syncing'
   until the apply that carries it has completed. *)
C24_SyncedMeansNothingOutstanding ==
    syncStatus = "synced" => applyTimeout = Null /\ applyCalls = EmptyBag

(* C26: at startup the settings stored in the backend are not overwritten
   with the hook's default state before they have been loaded: while
   loadInitialState is waiting for listProfiles or getSettings, the save
   timer does not issue updateSettings with the defaults. *)
C26_DefaultsNotSavedBeforeLoad ==
    [][(Waiting /\ saveTimeout = Some(DefaultState)) => ~SaveTimeoutFires]_vars

====
